---- MODULE Spec2Model ----
(***************************************************************************)
(* Peer connection and message transport layer of clipboard-sync           *)
(* (src/src/network_alternative.rs).                                       *)
(*                                                                         *)
(* Two NetworkManager instances are modelled: "srv", which is started with *)
(* start_server, and "cli", which dials with connect_to_device.  A third   *)
(* endpoint, "raw", is a remote program that is not a NetworkManager: it   *)
(* may listen, dial into srv, write arbitrary frames, stay silent or close.*)
(***************************************************************************)
EXTENDS Integers, Sequences, FiniteSets, TLC

\* ------------------------------------------------------------- bounds
MaxConns == 2        \* TCP connections established in one behaviour
MaxFrames == 2       \* frames the raw endpoints write in one behaviour
MaxBroadcasts == 1   \* broadcast_message calls in one behaviour
MaxWire == 2         \* frames a socket buffer holds before a write suspends

\* ---------------------------------------------------------- constants
MESSAGE_MAX_SIZE == 10 * 1024 * 1024
SmallLen == 5        \* bytes of a short text, and of a short unparsable body

Manager == {"srv", "cli"}

\* NetworkManager is Clone: the tasks of a process call it through clones that
\* share one registry.  A caller of broadcast_message is the application task
\* of a manager, named as the manager, or "cli2", a second task of the client.
Caller == Manager \cup {"cli2"}
manager_of(b) == IF b = "cli2" THEN "cli" ELSE b
Listener == {"srv"}
Dialer == {"cli"}
RawAddr == {"rawA", "rawB"}

\* main.rs runs a process as a server (Start) or as a client (Connect).  The
\* remote side of a server is raw clients, of a client raw servers; in "both"
\* the client dials the server.
Deployment == {"server", "client", "both"}
Processes(d) == IF d = "server" THEN {"srv"} ELSE IF d = "client" THEN {"cli"} ELSE {"srv", "cli"}
Targets(d) == IF d = "client" THEN RawAddr ELSE IF d = "both" THEN {"srv"} ELSE {}
Side == {"d", "a"}    \* the dialing end and the accepting end of a connection

\* ------------------------------------------------------------ messages
\* A String / Vec<u8> is modelled by a label and its length in bytes.
Hello == [s |-> "hello", n |-> SmallLen]
Huge == [s |-> "huge", n |-> MESSAGE_MAX_SIZE]
AtMax == [s |-> "atmax", n |-> MESSAGE_MAX_SIZE - 97]
Pixels == [s |-> "png", n |-> 2]
Timestamps == {1700000000}
DeviceName == [srv |-> [s |-> "srv-dev", n |-> 7], cli |-> [s |-> "cli-dev", n |-> 7]]
LocalDevice == [s |-> "local_device", n |-> 12]

new_text(content, sender_id, sender_name, now) ==
    [content |-> [tag |-> "Text", text |-> content],
     timestamp |-> now, sender_id |-> sender_id, sender_name |-> sender_name]

new_image(width, height, data, sender_id, sender_name, now) ==
    [content |-> [tag |-> "Image", width |-> width, height |-> height, data |-> data],
     timestamp |-> now, sender_id |-> sender_id, sender_name |-> sender_name]

RECURSIVE Digits(_)
Digits(n) == IF n < 10 THEN 1 ELSE 1 + Digits(n \div 10)

\* serde_json writes the enum externally tagged: {"Text":"..."} or
\* {"Image":{"width":..,"height":..,"data":[..]}}.
ContentJson(c) ==
    IF c.tag = "Text"
    THEN [Text |-> c.text]
    ELSE [Image |-> [width |-> c.width, height |-> c.height, data |-> c.data]]

\* Bytes of the JSON text of a content value; a data byte is written as a
\* decimal number of one to three digits followed by a comma but for the last.
ContentJsonLen(c) ==
    IF c.tag = "Text"
    THEN 11 + c.text.n
    ELSE 40 + Digits(c.width) + Digits(c.height)
         + (IF c.data.n = 0 THEN 0 ELSE 2 * c.data.n - 1)

\* An encoding that leaves the sender's name out.
to_bytes_skip_name(m) ==
    [n |-> 57 + ContentJsonLen(m.content) + Digits(m.timestamp) + m.sender_id.n,
     json |-> [content |-> ContentJson(m.content), timestamp |-> m.timestamp,
               sender_id |-> m.sender_id]]

to_bytes(m) ==
    [n |-> 57 + ContentJsonLen(m.content) + Digits(m.timestamp)
           + m.sender_id.n + m.sender_name.n,
     json |-> [content |-> ContentJson(m.content), timestamp |-> m.timestamp,
               sender_id |-> m.sender_id, sender_name |-> m.sender_name]]

Junk == [n |-> SmallLen, json |-> [junk |-> TRUE]]

IsRecordWith(j, keys) == DOMAIN j = keys

\* from_bytes: Ok(message) or Err.
from_bytes(data) ==
    LET j == data.json IN
    IF ~IsRecordWith(j, {"content", "timestamp", "sender_id", "sender_name"})
    THEN [ok |-> FALSE]
    ELSE IF DOMAIN j.content = {"Text"}
         THEN [ok |-> TRUE,
               message |-> [content |-> [tag |-> "Text", text |-> j.content.Text],
                            timestamp |-> j.timestamp, sender_id |-> j.sender_id,
                            sender_name |-> j.sender_name]]
         ELSE IF DOMAIN j.content = {"Image"}
              THEN [ok |-> TRUE,
                    message |-> [content |-> [tag |-> "Image",
                                              width |-> j.content.Image.width,
                                              height |-> j.content.Image.height,
                                              data |-> j.content.Image.data],
                                 timestamp |-> j.timestamp, sender_id |-> j.sender_id,
                                 sender_name |-> j.sender_name]]
              ELSE [ok |-> FALSE]

\* The frame broadcast_message builds: data.len() as u32, big endian, then data.
\* Every length of the model is below 2^31, where the cast keeps the value.
send_data(m) ==
    LET data == to_bytes(m) IN [len |-> data.n, have |-> data.n, body |-> data]

\* Messages broadcast_clipboard and broadcast_image construct.
broadcast_clipboard(mgr, content, now) ==
    new_text(content, LocalDevice, DeviceName[mgr], now)

broadcast_image(mgr, width, height, data, now) ==
    new_image(width, height, data, LocalDevice, DeviceName[mgr], now)

Outbound(mgr) ==
    {broadcast_clipboard(mgr, t, now) : t \in {Hello, Huge}, now \in Timestamps}

\* Frames a raw endpoint writes: a well formed one whose prefix is exactly the
\* maximum, one whose prefix is above it, one whose body does not parse, and
\* one whose body has not arrived in full yet.
RawText(t) == send_data(new_text(t, LocalDevice, [s |-> "raw-dev", n |-> 7], 1700000000))

RawFrames ==
    {RawText(AtMax),
     [len |-> MESSAGE_MAX_SIZE + 1, have |-> 1, body |-> Junk],
     [len |-> SmallLen, have |-> SmallLen, body |-> Junk],
     [len |-> RawText(Hello).len, have |-> 1, body |-> RawText(Hello).body]}

\* The frames at the size limit: the largest accepted and the smallest rejected.
SizedFrames == {f \in RawFrames : f.len >= MESSAGE_MAX_SIZE}

\* ---------------------------------------------------------------- state
VARIABLES
    deployment,       \* which processes exist: main.rs starts a server or a client
    connections,      \* [Manager -> [PeerId -> connection]]  Mutex<HashMap<String, TcpStream>>
    lock,             \* [Manager -> task holding the connections mutex]
    message_sender,   \* [Manager -> BOOLEAN]  Some(sender) after setup_message_handler
    is_running,       \* [Manager -> BOOLEAN]
    inbound,          \* [Manager -> Seq]  what was sent into the inbound channel
    stream,           \* Seq of TCP connections: both ends, bytes in flight
    nframe,           \* frames the raw endpoints have written so far
    nbcast,           \* broadcast_message calls so far
    backlog,          \* [Manager -> Seq]  established connections not yet accepted
    accept_loop,      \* [Manager -> position of the task spawned by start_data_server]
    reader,           \* Seq: the task spawned by connect_to_device for each connection
    rd,               \* [Manager -> position inside read_message of the lock holder]
    conn_call,        \* [Manager -> connect_to_device call in progress / last result]
    bcast,            \* [Manager -> broadcast_message call in progress / last result]
    sd,               \* [Manager -> shutdown call: "idle", "clear", "returned"]
    codec             \* a message, its to_bytes and the from_bytes of that

vars == <<codec, deployment, connections, lock, message_sender, is_running, inbound, stream, nframe,
          nbcast, backlog, accept_loop, reader, rd, conn_call, bcast, sd>>

Free == [t |-> "free", c |-> 0]
NoId == [role |-> "none", addr |-> "none", port |-> 0]
EmptyMap == [x \in {} |-> 0]

\* format!("server_{}:{}", ip, port)
server_device_id(target) == [role |-> "server", addr |-> target, port |-> 0]

\* format!("client_{}", addr): the remote address and its ephemeral port,
\* which no two live connections to one listener share.
client_device_id(st, c) == [role |-> "client", addr |-> st[c].dialer, port |-> c]

\* An insert that keeps the entry an id already has.
insert_keep_first(reg, id, c) ==
    [x \in DOMAIN reg \cup {id} |-> IF x \in DOMAIN reg THEN reg[x] ELSE c]

\* HashMap::insert / remove, and the streams they drop.
insert(reg, id, c) == [x \in DOMAIN reg \cup {id} |-> IF x = id THEN c ELSE reg[x]]
remove(reg, ids) == [x \in DOMAIN reg \ ids |-> reg[x]]
Held(reg, ids) == {reg[x] : x \in DOMAIN reg \cap ids}

EndOf(st, c, e) == IF st[c].dialer = e THEN "d" ELSE "a"
Other(s) == IF s = "d" THEN "a" ELSE "d"

\* Dropping a TcpStream closes the socket: what was still to be read is gone.
Close(st, cs, e) ==
    [c \in DOMAIN st |->
        IF c \in cs
        THEN [st[c] EXCEPT !.open[EndOf(st, c, e)] = FALSE, !.wire[EndOf(st, c, e)] = <<>>]
        ELSE st[c]]

NewStream(from, to) ==
    [dialer |-> from, target |-> to,
     wire |-> [d |-> <<>>, a |-> <<>>], open |-> [d |-> TRUE, a |-> TRUE],
     sent |-> [d |-> 0, a |-> 0], stalled |-> [d |-> FALSE, a |-> FALSE]]

\* read_result of a reader task: the Err read_message returned, and the stream
\* it had been called on, from the end of the read block to the remove.
NoResult == [err |-> "none", c |-> 0]
NoTask == [pc |-> "none", id |-> NoId, mgr |-> "none", read_result |-> NoResult]
NoCall == [pc |-> "idle", c |-> 0, id |-> NoId, outcome |-> "none", result |-> "none"]
NoBroadcast ==
    [pc |-> "idle", frame |-> send_data(broadcast_clipboard("cli", Hello, 1700000000)),
     todo |-> {}, order |-> <<>>, snapshot |-> {}, failed |-> {}, written |-> {},
     result |-> "none"]

\* No message under conversion.
NoCodec == [pc |-> "off", m |-> new_text(Hello, LocalDevice, DeviceName["cli"], 0),
            data |-> Junk, back |-> [ok |-> FALSE]]

\* The processes after NetworkManager::new, nothing connected yet.
InitNet ==
    /\ deployment \in Deployment
    /\ connections = [m \in Manager |-> EmptyMap]
    /\ lock = [m \in Manager |-> Free]
    /\ message_sender = [m \in Manager |-> FALSE]
    /\ is_running = [m \in Manager |-> FALSE]
    /\ inbound = [m \in Manager |-> <<>>]
    /\ stream = <<>>
    /\ nframe = 0
    /\ nbcast = 0
    /\ backlog = [m \in Manager |-> <<>>]
    /\ accept_loop = [m \in Manager |-> [pc |-> "none", c |-> 0, id |-> NoId]]
    /\ reader = <<>>
    /\ rd = [m \in Manager |-> "idle"]
    /\ conn_call = [m \in Manager |-> NoCall]
    /\ bcast = [b \in Caller |-> NoBroadcast]
    /\ sd = [m \in Manager |-> "idle"]

Init == InitNet /\ codec = NoCodec

\* ------------------------------------------------------ read_message
\* read_message runs only while its caller holds the connections mutex, so
\* one position per manager is enough.
Reading(m) == lock[m].t \in {"reader", "accept"}
reading_id(m) == IF lock[m].t = "reader" THEN reader[lock[m].c].id ELSE accept_loop[m].id
reading_stream(m) == connections[m][reading_id(m)]
Inbox(m, c) == stream[c].wire[EndOf(stream, c, m)]
PeerOpen(m, c) == stream[c].open[Other(EndOf(stream, c, m))]
SetInbox(m, c, q) == [stream EXCEPT ![c].wire[EndOf(stream, c, m)] = q]

too_large(message_len) == message_len > MESSAGE_MAX_SIZE

\* What read_message returns: Ok(()) or one of its errors.
Ok(res) == res = "Ok"

\* A reader task that ends on an error without removing its entry.
reader_task_after_exit(m, res) ==
    /\ lock' = [lock EXCEPT ![m] = Free]
    /\ rd' = [rd EXCEPT ![m] = "idle"]
    /\ reader' = [reader EXCEPT ![lock[m].c].pc = IF Ok(res) THEN "check" ELSE "done"]
    /\ UNCHANGED accept_loop

\* The reader task of connect_to_device after read_message returned: the guard
\* is released at the end of the block; Err removes the entry and ends the
\* task, Ok sleeps 10 ms and loops.
reader_task_after(m, res) ==
    /\ lock' = [lock EXCEPT ![m] = Free]
    /\ rd' = [rd EXCEPT ![m] = "idle"]
    /\ reader' = [reader EXCEPT
            ![lock[m].c].pc = IF Ok(res) THEN "check" ELSE "remove",
            ![lock[m].c].read_result =
                IF Ok(res) THEN NoResult ELSE [err |-> res, c |-> reading_stream(m)]]
    /\ UNCHANGED accept_loop

\* handle_tcp_connection: reads frames with read_message until one fails, then
\* returns to the accept loop, which drops the guard and removes the entry.
handle_tcp_connection(m, res) ==
    /\ lock' = [lock EXCEPT ![m] = IF Ok(res) THEN lock[m] ELSE Free]
    /\ rd' = [rd EXCEPT ![m] = IF Ok(res) THEN "len" ELSE "idle"]
    /\ accept_loop' = [accept_loop EXCEPT ![m].pc = IF Ok(res) THEN "handle" ELSE "remove"]
    /\ UNCHANGED reader

read_message_returns(m, res) ==
    IF lock[m].t = "reader" THEN reader_task_after(m, res) ELSE handle_tcp_connection(m, res)

\* stream.read_exact(&mut len_buf) and the size check.
read_len(m) ==
    /\ Reading(m) /\ rd[m] = "len"
    /\ LET c == reading_stream(m)
           q == Inbox(m, c)
       IN \/ /\ q # <<>> /\ Head(q).pre
             /\ stream' = SetInbox(m, c, <<[Head(q) EXCEPT !.pre = FALSE]>> \o Tail(q))
             /\ IF too_large(Head(q).len)
                THEN read_message_returns(m, "too large")
                ELSE /\ rd' = [rd EXCEPT ![m] = "body"]
                     /\ UNCHANGED <<lock, reader, accept_loop>>
          \* the four bytes are body bytes of a frame rejected earlier: garbage
          \/ /\ q # <<>> /\ ~Head(q).pre
             /\ read_message_returns(m, "too large")
             /\ UNCHANGED stream
          \/ /\ q = <<>> /\ ~PeerOpen(m, c)
             /\ read_message_returns(m, "disconnected")
             /\ UNCHANGED stream
    /\ UNCHANGED <<codec, deployment, connections, message_sender, is_running, inbound, nframe, nbcast,
                   backlog, conn_call, bcast, sd>>

\* A channel that hands the newest message out first.
forward_front(chan, some_sender, entry) == IF some_sender THEN <<entry>> \o chan ELSE chan

\* What sender.send(message) leaves in the channel.
forward(chan, some_sender, entry) == IF some_sender THEN Append(chan, entry) ELSE chan

\* A read that returns with whatever bytes have arrived.
read_some(f) == f.have >= 1

\* stream.read_exact(&mut buffer) returns Ok once message_len bytes arrived.
read_exact(f) == f.have >= f.len

\* stream.read_exact(&mut buffer), from_bytes, and the forward to the channel.
\* Bytes cut short of the declared length are no JSON document.
read_body(m) ==
    /\ Reading(m) /\ rd[m] = "body"
    /\ LET c == reading_stream(m)
           q == Inbox(m, c)
           f == Head(q)
           r == IF f.have = f.len THEN from_bytes(f.body) ELSE [ok |-> FALSE]
       IN \/ /\ read_exact(f)
             /\ stream' = SetInbox(m, c, Tail(q))
             /\ inbound' = [inbound EXCEPT ![m] =
                    IF r.ok
                    THEN forward(@, message_sender[m], [message |-> r.message, c |-> c, k |-> f.k])
                    ELSE @]
             /\ read_message_returns(m, IF r.ok THEN "Ok" ELSE "parse failed")
          \/ /\ ~read_exact(f) /\ ~PeerOpen(m, c)
             /\ read_message_returns(m, "eof")
             /\ UNCHANGED <<stream, inbound>>
    /\ UNCHANGED <<codec, deployment, connections, message_sender, is_running, nframe, nbcast,
                   backlog, conn_call, bcast, sd>>

\* ------------------------------------------------------ the application
\* run_server and connect_to_server call the manager from one task, one call
\* after the other, and shutdown last.
AppIdle(m) ==
    /\ m \in Processes(deployment)
    /\ conn_call[m].pc = "idle" /\ bcast[m].pc = "idle" /\ sd[m] = "idle"

\* --------------------------------------------- setup_message_handler
setup_message_handler(m) ==
    /\ AppIdle(m)
    /\ ~message_sender[m]
    /\ message_sender' = [message_sender EXCEPT ![m] = TRUE]
    /\ UNCHANGED <<codec, deployment, connections, lock, is_running, inbound, stream, nframe, nbcast,
                   backlog, accept_loop, reader, rd, conn_call, bcast, sd>>

\* ------------------------------------ start_server, start_data_server
Listening(t) == IF t \in RawAddr THEN TRUE ELSE accept_loop[t].pc \notin {"none", "exited"}

start_server(m) ==
    /\ AppIdle(m)
    /\ accept_loop[m].pc = "none"
    /\ is_running' = [is_running EXCEPT ![m] = TRUE]
    /\ accept_loop' = [accept_loop EXCEPT ![m].pc = "while"]
    /\ UNCHANGED <<codec, deployment, connections, lock, message_sender, inbound, stream, nframe, nbcast,
                   backlog, reader, rd, conn_call, bcast, sd>>

\* while *is_running.lock().await: when false the task ends and the
\* listener is dropped with whatever it had not accepted.
accept_while(m) ==
    /\ accept_loop[m].pc = "while"
    /\ IF is_running[m]
       THEN /\ accept_loop' = [accept_loop EXCEPT ![m].pc = "accept"]
            /\ UNCHANGED <<stream, backlog>>
       ELSE /\ accept_loop' = [accept_loop EXCEPT ![m].pc = "exited"]
            /\ stream' = Close(stream, {backlog[m][i] : i \in DOMAIN backlog[m]}, m)
            /\ backlog' = [backlog EXCEPT ![m] = <<>>]
    /\ UNCHANGED <<codec, deployment, connections, lock, message_sender, is_running, inbound, nframe,
                   nbcast, reader, rd, conn_call, bcast, sd>>

\* listener.accept() returned Ok((stream, addr)).
accept_ok(m) ==
    /\ accept_loop[m].pc = "accept" /\ backlog[m] # <<>>
    /\ accept_loop' = [accept_loop EXCEPT
            ![m] = [pc |-> "insert", c |-> Head(backlog[m]),
                    id |-> client_device_id(stream, Head(backlog[m]))]]
    /\ backlog' = [backlog EXCEPT ![m] = Tail(@)]
    /\ UNCHANGED <<codec, deployment, connections, lock, message_sender, is_running, inbound, stream,
                   nframe, nbcast, reader, rd, conn_call, bcast, sd>>

\* listener.accept() returned Err: logged, 100 ms sleep, next iteration.
accept_err(m) ==
    /\ accept_loop[m].pc = "accept"
    /\ accept_loop' = [accept_loop EXCEPT ![m].pc = "while"]
    /\ UNCHANGED <<codec, deployment, connections, lock, message_sender, is_running, inbound, stream,
                   nframe, nbcast, backlog, reader, rd, conn_call, bcast, sd>>

\* connections.lock().await.insert(device_id, stream), then the len() log line.
accept_insert(m) ==
    /\ accept_loop[m].pc = "insert" /\ lock[m] = Free
    /\ connections' = [connections EXCEPT
            ![m] = insert(@, accept_loop[m].id, accept_loop[m].c)]
    /\ stream' = Close(stream, Held(connections[m], {accept_loop[m].id}), m)
    /\ accept_loop' = [accept_loop EXCEPT ![m].pc = "get"]
    /\ UNCHANGED <<codec, deployment, lock, message_sender, is_running, inbound, nframe, nbcast,
                   backlog, reader, rd, conn_call, bcast, sd>>

\* if let Some(stream) = connections.lock().await.get_mut(&device_id): the
\* guard lives until the end of the if let, across handle_tcp_connection.
accept_get(m) ==
    /\ accept_loop[m].pc = "get" /\ lock[m] = Free
    /\ IF accept_loop[m].id \in DOMAIN connections[m]
       THEN /\ lock' = [lock EXCEPT ![m] = [t |-> "accept", c |-> accept_loop[m].c]]
            /\ rd' = [rd EXCEPT ![m] = "len"]
            /\ accept_loop' = [accept_loop EXCEPT ![m].pc = "handle"]
       ELSE /\ accept_loop' = [accept_loop EXCEPT ![m].pc = "remove"]
            /\ UNCHANGED <<lock, rd>>
    /\ UNCHANGED <<codec, deployment, connections, message_sender, is_running, inbound, stream, nframe,
                   nbcast, backlog, reader, conn_call, bcast, sd>>

\* connections.lock().await.remove(&device_id)
accept_remove(m) ==
    /\ accept_loop[m].pc = "remove" /\ lock[m] = Free
    /\ connections' = [connections EXCEPT ![m] = remove(@, {accept_loop[m].id})]
    /\ stream' = Close(stream, Held(connections[m], {accept_loop[m].id}), m)
    /\ accept_loop' = [accept_loop EXCEPT ![m] = [pc |-> "while", c |-> 0, id |-> NoId]]
    /\ UNCHANGED <<codec, deployment, lock, message_sender, is_running, inbound, nframe, nbcast,
                   backlog, reader, rd, conn_call, bcast, sd>>

\* -------------------------------------------------- connect_to_device
\* ip.parse(), then timeout(CONNECTION_TIMEOUT, TcpStream::connect(addr)).
DialOutcome == {"Ok(Ok(stream))", "Ok(Err(e))", "Err(elapsed)", "invalid ip"}

\* A dial that registers the peer whatever the outcome of the connect.
registers_always(outcome) == TRUE

\* Only the Ok(Ok(stream)) arm goes on to register the connection.
registers(outcome) == outcome = "Ok(Ok(stream))"

\* What the call returns: Ok(device_id) for an established stream, Err otherwise.
connect_result(outcome) == IF outcome = "Ok(Ok(stream))" THEN "Ok" ELSE "Err"

connect_to_device(m, target, outcome) ==
    /\ AppIdle(m) /\ target \in Targets(deployment)
    /\ Len(stream) = 0 => target # "rawB"
    /\ outcome = "Ok(Ok(stream))" => Listening(target)
    /\ registers(outcome) => Len(stream) < MaxConns
    /\ IF registers(outcome)
       THEN /\ stream' = Append(stream, NewStream(m, target))
            /\ reader' = Append(reader, NoTask)
            /\ backlog' = [x \in Manager |->
                    IF x = target THEN Append(backlog[x], Len(stream) + 1) ELSE backlog[x]]
            /\ conn_call' = [conn_call EXCEPT
                    ![m] = [pc |-> "insert", c |-> Len(stream) + 1,
                            id |-> server_device_id(target), outcome |-> outcome,
                            result |-> "none"]]
       ELSE /\ conn_call' = [conn_call EXCEPT
                    ![m] = [NoCall EXCEPT !.result = connect_result(outcome)]]
            /\ UNCHANGED <<stream, reader, backlog>>
    /\ UNCHANGED <<codec, deployment, connections, lock, message_sender, is_running, inbound, nframe,
                   nbcast, accept_loop, rd, bcast, sd>>

\* self.connections.lock().await.insert(device_id, stream); tokio::spawn of
\* the reader task; Ok(device_id).
connect_insert(m) ==
    /\ conn_call[m].pc = "insert" /\ lock[m] = Free
    /\ connections' = [connections EXCEPT ![m] = insert(@, conn_call[m].id, conn_call[m].c)]
    /\ stream' = Close(stream, Held(connections[m], {conn_call[m].id}), m)
    /\ reader' = [reader EXCEPT
            ![conn_call[m].c] = [pc |-> "check", id |-> conn_call[m].id, mgr |-> m,
                                 read_result |-> NoResult]]
    /\ conn_call' = [conn_call EXCEPT
            ![m] = [NoCall EXCEPT !.result = connect_result(conn_call[m].outcome)]]
    /\ UNCHANGED <<codec, deployment, lock, message_sender, is_running, inbound, nframe, nbcast,
                   backlog, accept_loop, rd, bcast, sd>>

\* has_connection: contains_key under the lock, released at the end of the block.
reader_check(r) ==
    /\ r \in DOMAIN reader
    /\ reader[r].pc = "check" /\ lock[reader[r].mgr] = Free
    /\ reader' = [reader EXCEPT ![r].pc =
            IF reader[r].id \in DOMAIN connections[reader[r].mgr] THEN "acquire" ELSE "done"]
    /\ UNCHANGED <<codec, deployment, connections, lock, message_sender, is_running, inbound, stream,
                   nframe, nbcast, backlog, accept_loop, rd, conn_call, bcast, sd>>

\* let mut conns = connections.lock().await; conns.get_mut(&device_id): with
\* Some(stream) read_message is awaited while conns is still alive.
reader_acquire(r) ==
    /\ r \in DOMAIN reader
    /\ reader[r].pc = "acquire" /\ lock[reader[r].mgr] = Free
    /\ LET m == reader[r].mgr IN
       IF reader[r].id \in DOMAIN connections[m]
       THEN /\ lock' = [lock EXCEPT ![m] = [t |-> "reader", c |-> r]]
            /\ rd' = [rd EXCEPT ![m] = "len"]
            /\ reader' = [reader EXCEPT ![r].pc = "read"]
       ELSE /\ reader' = [reader EXCEPT ![r].pc = "done"]
            /\ UNCHANGED <<lock, rd>>
    /\ UNCHANGED <<codec, deployment, connections, message_sender, is_running, inbound, stream, nframe,
                   nbcast, backlog, accept_loop, conn_call, bcast, sd>>

\* connections.lock().await.remove(&device_id_clone); break
reader_remove(r) ==
    /\ r \in DOMAIN reader
    /\ reader[r].pc = "remove" /\ lock[reader[r].mgr] = Free
    /\ connections' = [connections EXCEPT ![reader[r].mgr] = remove(@, {reader[r].id})]
    /\ stream' = Close(stream, Held(connections[reader[r].mgr], {reader[r].id}), reader[r].mgr)
    /\ reader' = [reader EXCEPT ![r].pc = "done", ![r].read_result = NoResult]
    /\ UNCHANGED <<codec, deployment, lock, message_sender, is_running, inbound, nframe, nbcast,
                   backlog, accept_loop, rd, conn_call, bcast, sd>>

\* -------------------------------------------------- broadcast_message
\* A write_all to a connection whose other end is gone fails, or is taken by
\* the local socket buffer and lost; with the other end open it completes
\* once the buffer has room, which it never has while the other end has
\* stopped reading with its buffers full.
write_results(st, m, c) ==
    IF st[c].open[Other(EndOf(st, c, m))]
    THEN IF /\ ~st[c].stalled[Other(EndOf(st, c, m))]
            /\ Len(st[c].wire[Other(EndOf(st, c, m))]) < MaxWire
         THEN {"Ok"} ELSE {}
    ELSE {"Err", "Ok"}

\* The orders in which connections.iter_mut() may yield the entries of a
\* HashMap: any, and the same for the whole loop.
Orders(ids) ==
    {o \in [1..Cardinality(ids) -> ids] :
        \A i, j \in 1..Cardinality(ids) : i # j => o[i] # o[j]}

\* A sweep that stops at the first write that fails.
rest_of_sweep_abort(todo, id, result) == IF result = "Err" THEN {} ELSE todo \ {id}

\* The peers still to be written to after the write to id returned: the for
\* loop goes on whatever the result.
rest_of_sweep(todo, id, result) == todo \ {id}

\* failed_connections after the write to id returned.
failed_connections(failed, id, result) == IF result = "Err" THEN failed \cup {id} ELSE failed

\* A broadcast that reports a failed write to its caller.
broadcast_result_strict(failed) == IF failed = {} THEN "Ok" ELSE "Err"

\* What broadcast_message returns once the sweep is over.
broadcast_result(failed) == "Ok"

broadcast_message(m, message) ==
    /\ AppIdle(m) /\ nbcast < MaxBroadcasts
    /\ nbcast' = nbcast + 1
    /\ bcast' = [bcast EXCEPT ![m] = [NoBroadcast EXCEPT !.pc = "lock", !.frame = send_data(message)]]
    /\ UNCHANGED <<codec, deployment, connections, lock, message_sender, is_running, inbound, stream,
                   nframe, backlog, accept_loop, reader, rd, conn_call, sd>>

\* The one call of the second task, which does not wait for the application
\* task: the two calls may overlap.
broadcast_message_overlapping(b, message) ==
    /\ b \notin Manager /\ manager_of(b) \in Processes(deployment)
    /\ bcast[b].pc = "idle" /\ bcast[b].result = "none"
    /\ sd[manager_of(b)] = "idle"
    /\ bcast' = [bcast EXCEPT ![b] = [NoBroadcast EXCEPT !.pc = "lock", !.frame = send_data(message)]]
    /\ UNCHANGED <<codec, deployment, connections, lock, message_sender, is_running, inbound, stream,
                   nframe, nbcast, backlog, accept_loop, reader, rd, conn_call, sd>>

\* A sweep that starts without taking the connections mutex.
broadcast_unlocked(b) ==
    /\ bcast[b].pc = "lock"
    /\ \E o \in Orders(DOMAIN connections[manager_of(b)]) :
         bcast' = [bcast EXCEPT ![b].pc = "sweep",
                                ![b].todo = DOMAIN connections[manager_of(b)],
                                ![b].order = o,
                                ![b].snapshot = DOMAIN connections[manager_of(b)]]
    /\ UNCHANGED <<codec, deployment, connections, lock, message_sender, is_running, inbound, stream,
                   nframe, nbcast, backlog, accept_loop, reader, rd, conn_call, sd>>

\* A mutex that a broadcast is given although another broadcast holds it.
broadcast_lock_shared(b) ==
    /\ bcast[b].pc = "lock"
    /\ lock[manager_of(b)] = Free \/ lock[manager_of(b)].t = "broadcast"
    /\ lock' = [lock EXCEPT ![manager_of(b)] = [t |-> "broadcast", c |-> 0]]
    /\ \E o \in Orders(DOMAIN connections[manager_of(b)]) :
         bcast' = [bcast EXCEPT ![b].pc = "sweep",
                                ![b].todo = DOMAIN connections[manager_of(b)],
                                ![b].order = o,
                                ![b].snapshot = DOMAIN connections[manager_of(b)]]
    /\ UNCHANGED <<codec, deployment, connections, message_sender, is_running, inbound, stream, nframe,
                   nbcast, backlog, accept_loop, reader, rd, conn_call, sd>>

\* let mut connections = self.connections.lock().await
broadcast_lock(b) ==
    /\ bcast[b].pc = "lock" /\ lock[manager_of(b)] = Free
    /\ lock' = [lock EXCEPT ![manager_of(b)] = [t |-> "broadcast", c |-> 0]]
    /\ \E o \in Orders(DOMAIN connections[manager_of(b)]) :
         bcast' = [bcast EXCEPT ![b].pc = "sweep",
                                ![b].todo = DOMAIN connections[manager_of(b)],
                                ![b].order = o,
                                ![b].snapshot = DOMAIN connections[manager_of(b)]]
    /\ UNCHANGED <<codec, deployment, connections, message_sender, is_running, inbound, stream, nframe,
                   nbcast, backlog, accept_loop, reader, rd, conn_call, sd>>

\* stream.write_all(&send_data).await for the next entry of
\* connections.iter_mut(): the loop goes to the entry after it only when this
\* write has returned.
broadcast_write(b, id) ==
    /\ bcast[b].pc = "sweep" /\ id \in bcast[b].todo
    /\ bcast[b].order # <<>> /\ id = Head(bcast[b].order)
    /\ id \in DOMAIN connections[manager_of(b)]
    /\ LET m == manager_of(b)
           c == connections[m][id]
           to == Other(EndOf(stream, c, m))
       IN \E result \in write_results(stream, m, c) :
            /\ IF result = "Ok" /\ stream[c].open[to]
               THEN /\ stream' = [stream EXCEPT ![c].wire[to] =
                           Append(@, [len |-> bcast[b].frame.len, have |-> bcast[b].frame.have,
                                      body |-> bcast[b].frame.body, pre |-> TRUE,
                                      k |-> stream[c].sent[to] + 1]),
                                        ![c].sent[to] = @ + 1]
               ELSE UNCHANGED stream
            /\ bcast' = [bcast EXCEPT
                    ![b].todo = rest_of_sweep(@, id, result),
                    ![b].order = Tail(@),
                    ![b].failed = failed_connections(@, id, result),
                    ![b].written = IF result = "Ok" THEN @ \cup {id} ELSE @]
    /\ UNCHANGED <<codec, deployment, connections, lock, message_sender, is_running, inbound, nframe,
                   nbcast, backlog, accept_loop, reader, rd, conn_call, sd>>

\* for device_id in failed_connections { connections.remove(&device_id) }; Ok(())
broadcast_return(b) ==
    /\ bcast[b].pc = "sweep" /\ bcast[b].todo = {}
    /\ connections' = [connections EXCEPT ![manager_of(b)] = remove(@, bcast[b].failed)]
    /\ stream' = Close(stream, Held(connections[manager_of(b)], bcast[b].failed), manager_of(b))
    /\ lock' = [lock EXCEPT ![manager_of(b)] = Free]
    /\ bcast' = [bcast EXCEPT ![b] = [bcast[b] EXCEPT !.pc = "idle", !.frame = NoBroadcast.frame,
                                       !.order = <<>>,
                                       !.result = broadcast_result(bcast[b].failed)]]
    /\ UNCHANGED <<codec, deployment, message_sender, is_running, inbound, nframe, nbcast, backlog,
                   accept_loop, reader, rd, conn_call, sd>>

\* ----------------------------------------------------------- shutdown
\* *self.is_running.lock().await = false
shutdown(m) ==
    /\ AppIdle(m)
    /\ is_running' = [is_running EXCEPT ![m] = FALSE]
    /\ sd' = [sd EXCEPT ![m] = "clear"]
    /\ UNCHANGED <<codec, deployment, connections, lock, message_sender, inbound, stream, nframe, nbcast,
                   backlog, accept_loop, reader, rd, conn_call, bcast>>

\* self.connections.lock().await.clear()
shutdown_clear(m) ==
    /\ sd[m] = "clear" /\ lock[m] = Free
    /\ connections' = [connections EXCEPT ![m] = EmptyMap]
    /\ stream' = Close(stream, Held(connections[m], DOMAIN connections[m]), m)
    /\ sd' = [sd EXCEPT ![m] = "returned"]
    /\ UNCHANGED <<codec, deployment, lock, message_sender, is_running, inbound, nframe, nbcast, backlog,
                   accept_loop, reader, rd, conn_call, bcast>>

\* --------------------------------------------------- the raw endpoint
RawEnd(c) == IF stream[c].dialer \in RawAddr THEN "d" ELSE "a"
RawEnds == {c \in DOMAIN stream : {stream[c].dialer, stream[c].target} \cap RawAddr # {}
                                  /\ stream[c].open[RawEnd(c)]}

raw_dial(t) ==
    /\ deployment = "server"
    /\ Listening(t) /\ Len(stream) < MaxConns
    /\ stream' = Append(stream, NewStream("rawA", t))
    /\ reader' = Append(reader, NoTask)
    /\ backlog' = [backlog EXCEPT ![t] = Append(@, Len(stream) + 1)]
    /\ UNCHANGED <<codec, deployment, connections, lock, message_sender, is_running, inbound, nframe,
                   nbcast, accept_loop, rd, conn_call, bcast, sd>>

raw_send(c, f) ==
    LET to == Other(RawEnd(c))
        q == stream[c].wire[to]
    IN /\ c \in RawEnds /\ stream[c].open[to] /\ nframe < MaxFrames
       /\ Len(q) < MaxWire
       /\ q # <<>> => q[Len(q)].have >= q[Len(q)].len
       /\ stream' = [stream EXCEPT ![c].wire[to] =
               Append(@, [len |-> f.len, have |-> f.have, body |-> f.body,
                          pre |-> TRUE, k |-> stream[c].sent[to] + 1]),
                                ![c].sent[to] = @ + 1]
       /\ nframe' = nframe + 1
       /\ UNCHANGED <<codec, deployment, connections, lock, message_sender, is_running, inbound, nbcast,
                      backlog, accept_loop, reader, rd, conn_call, bcast, sd>>

\* The rest of a body that had been written in part.
raw_complete(c) ==
    LET to == Other(RawEnd(c))
        q == stream[c].wire[to]
    IN /\ c \in RawEnds /\ q # <<>>
       /\ q[Len(q)].have < q[Len(q)].len /\ q[Len(q)].len <= MESSAGE_MAX_SIZE
       /\ stream' = [stream EXCEPT ![c].wire[to][Len(q)].have = q[Len(q)].len]
       /\ UNCHANGED <<codec, deployment, connections, lock, message_sender, is_running, inbound, nframe,
                      nbcast, backlog, accept_loop, reader, rd, conn_call, bcast, sd>>

\* The endpoint stops reading, its receive buffer and the sender's send
\* buffer full: a write to it stays pending.
raw_stall(c) ==
    /\ c \in RawEnds /\ ~stream[c].stalled[RawEnd(c)]
    /\ stream' = [stream EXCEPT ![c].stalled[RawEnd(c)] = TRUE]
    /\ UNCHANGED <<codec, deployment, connections, lock, message_sender, is_running, inbound, nframe,
                   nbcast, backlog, accept_loop, reader, rd, conn_call, bcast, sd>>

raw_close(c) ==
    /\ c \in RawEnds
    /\ stream' = [stream EXCEPT ![c].open[RawEnd(c)] = FALSE, ![c].wire[RawEnd(c)] = <<>>]
    /\ UNCHANGED <<codec, deployment, connections, lock, message_sender, is_running, inbound, nframe,
                   nbcast, backlog, accept_loop, reader, rd, conn_call, bcast, sd>>

\* ------------------------------------------------------ specification
\* Every operation of both managers, with raw endpoints whose frames are at
\* the size limit; frames that do not parse or arrive in part are written in
\* NextFrames and NextServer.
Next ==
    \/ \E m \in Manager : setup_message_handler(m)
    \/ \E m \in Listener : start_server(m)
    \/ \E m \in Listener : accept_while(m)
    \/ \E m \in Listener : accept_ok(m)
    \/ \E m \in Listener : accept_err(m)
    \/ \E m \in Listener : accept_insert(m)
    \/ \E m \in Listener : accept_get(m)
    \/ \E m \in Listener : accept_remove(m)
    \/ \E m \in Manager : read_len(m)
    \/ \E m \in Manager : read_body(m)
    \/ \E m \in Dialer, t \in Listener \cup RawAddr, o \in DialOutcome : connect_to_device(m, t, o)
    \/ \E m \in Dialer : connect_insert(m)
    \/ \E r \in DOMAIN reader : reader_check(r)
    \/ \E r \in DOMAIN reader : reader_acquire(r)
    \/ \E r \in DOMAIN reader : reader_remove(r)
    \/ \E m \in Manager : \E msg \in Outbound(m) : broadcast_message(m, msg)
    \/ \E m \in Manager : broadcast_lock(m)
    \/ \E m \in Manager : \E id \in DOMAIN connections[m] : broadcast_write(m, id)
    \/ \E m \in Manager : broadcast_return(m)
    \/ \E m \in Manager : shutdown(m)
    \/ \E m \in Manager : shutdown_clear(m)
    \/ \E t \in Listener : raw_dial(t)
    \/ \E c \in DOMAIN stream, f \in SizedFrames : raw_send(c, f)
    \/ \E c \in DOMAIN stream : raw_close(c)

Spec == Init /\ [][Next]_vars

\* ------------------------------------------------------------ fairness
\* tokio runs every task that can run, and its Mutex hands the lock to the
\* waiters in turn: a task that waits for the lock gets it once the lock is
\* free.  In the specifications below every iteration of a loop uses up a
\* connection or a frame, of which there are finitely many, so a behaviour
\* takes finitely many steps and a step that is enabled again and again is
\* enabled for good: weak fairness says all that strong fairness would.
\* Nothing makes the application call the manager, a raw endpoint write or
\* close, or accept() fail.
FairAccept(m) ==
    /\ WF_vars(accept_while(m)) /\ WF_vars(accept_ok(m))
    /\ WF_vars(accept_insert(m)) /\ WF_vars(accept_get(m)) /\ WF_vars(accept_remove(m))

FairRead(m) == WF_vars(read_len(m)) /\ WF_vars(read_body(m))

FairCalls(m) ==
    /\ WF_vars(connect_insert(m))
    /\ WF_vars(broadcast_lock(m))
    /\ WF_vars(\E id \in DOMAIN connections[m] : broadcast_write(m, id))
    /\ WF_vars(broadcast_return(m))
    /\ WF_vars(shutdown_clear(m))

FairReader(r) ==
    WF_vars(reader_check(r)) /\ WF_vars(reader_acquire(r)) /\ WF_vars(reader_remove(r))

\* A server and a client that dials it: neither is shut down, accept() does
\* not fail and there is no other endpoint.
NextBoth ==
    \/ \E m \in Manager : setup_message_handler(m)
    \/ \E m \in Listener : start_server(m)
    \/ \E m \in Listener : accept_while(m)
    \/ \E m \in Listener : accept_ok(m)
    \/ \E m \in Listener : accept_insert(m)
    \/ \E m \in Listener : accept_get(m)
    \/ \E m \in Listener : accept_remove(m)
    \/ \E m \in Manager : read_len(m)
    \/ \E m \in Manager : read_body(m)
    \/ \E m \in Dialer, t \in Listener, o \in DialOutcome : connect_to_device(m, t, o)
    \/ \E m \in Dialer : connect_insert(m)
    \/ \E r \in DOMAIN reader : reader_check(r)
    \/ \E r \in DOMAIN reader : reader_acquire(r)
    \/ \E r \in DOMAIN reader : reader_remove(r)
    \/ \E m \in Manager : \E msg \in Outbound(m) : broadcast_message(m, msg)
    \/ \E m \in Manager : broadcast_lock(m)
    \/ \E m \in Manager : \E id \in DOMAIN connections[m] : broadcast_write(m, id)
    \/ \E m \in Manager : broadcast_return(m)

InitBoth == Init /\ deployment = "both"

FairSpecBoth ==
    /\ InitBoth
    /\ [][NextBoth]_vars
    /\ \A m \in Listener : FairAccept(m)
    /\ \A m \in Manager : FairRead(m) /\ FairCalls(m)
    /\ \A r \in 1..MaxConns : FairReader(r)

\* A client and the raw servers it dials, which write nothing: they stay
\* silent or close.
NextClient ==
    \/ \E m \in Dialer, t \in RawAddr, o \in DialOutcome : connect_to_device(m, t, o)
    \/ \E m \in Dialer : connect_insert(m)
    \/ \E r \in DOMAIN reader : reader_check(r)
    \/ \E r \in DOMAIN reader : reader_acquire(r)
    \/ \E r \in DOMAIN reader : reader_remove(r)
    \/ \E m \in Dialer : read_len(m)
    \/ \E m \in Dialer : shutdown(m)
    \/ \E m \in Dialer : shutdown_clear(m)
    \/ \E c \in DOMAIN stream : raw_close(c)

InitClient == Init /\ deployment = "client"

FairSpecClient ==
    /\ InitClient
    /\ [][NextClient]_vars
    /\ \A m \in Dialer : FairRead(m) /\ FairCalls(m)
    /\ \A r \in 1..MaxConns : FairReader(r)

\* A client and the raw servers it dials, which also write frames.
NextFrames ==
    \/ NextClient
    \/ \E m \in Dialer : read_body(m)
    \/ \E c \in DOMAIN stream, f \in RawFrames : raw_send(c, f)
    \/ \E c \in DOMAIN stream : raw_complete(c)

FairSpecFrames ==
    /\ InitClient
    /\ [][NextFrames]_vars
    /\ \A m \in Dialer : FairRead(m) /\ FairCalls(m)
    /\ \A r \in 1..MaxConns : FairReader(r)

\* A server and the raw clients that dial it; it is not shut down and
\* accept() does not fail.
InitServer == Init /\ deployment = "server"

NextServer ==
    \/ \E m \in Listener : setup_message_handler(m)
    \/ \E m \in Listener : start_server(m)
    \/ \E m \in Listener : accept_while(m)
    \/ \E m \in Listener : accept_ok(m)
    \/ \E m \in Listener : accept_insert(m)
    \/ \E m \in Listener : accept_get(m)
    \/ \E m \in Listener : accept_remove(m)
    \/ \E m \in Listener : read_len(m)
    \/ \E m \in Listener : read_body(m)
    \/ \E t \in Listener : raw_dial(t)
    \/ \E c \in DOMAIN stream, f \in RawFrames : raw_send(c, f)
    \/ \E c \in DOMAIN stream : raw_complete(c)
    \/ \E c \in DOMAIN stream : raw_close(c)

FairSpecServer ==
    /\ InitServer
    /\ [][NextServer]_vars
    /\ \A m \in Listener : FairAccept(m) /\ FairRead(m)

\* A server, the raw clients that dial it and its shutdown; accept() does not
\* fail and the clients write nothing.
NextStop ==
    \/ \E m \in Listener : start_server(m)
    \/ \E m \in Listener : accept_while(m)
    \/ \E m \in Listener : accept_ok(m)
    \/ \E m \in Listener : accept_insert(m)
    \/ \E m \in Listener : accept_get(m)
    \/ \E m \in Listener : accept_remove(m)
    \/ \E m \in Listener : read_len(m)
    \/ \E m \in Listener : shutdown(m)
    \/ \E m \in Listener : shutdown_clear(m)
    \/ \E t \in Listener : raw_dial(t)
    \/ \E c \in DOMAIN stream : raw_close(c)

FairSpecStop ==
    /\ InitServer
    /\ [][NextStop]_vars
    /\ \A m \in Listener : FairAccept(m) /\ FairRead(m) /\ WF_vars(shutdown_clear(m))

\* A client, the two raw servers it dials and one broadcast; the servers
\* write nothing, and may stop reading or close.
NextStall ==
    \/ \E m \in Dialer, t \in RawAddr, o \in DialOutcome : connect_to_device(m, t, o)
    \/ \E m \in Dialer : connect_insert(m)
    \/ \E r \in DOMAIN reader : reader_check(r)
    \/ \E r \in DOMAIN reader : reader_acquire(r)
    \/ \E r \in DOMAIN reader : reader_remove(r)
    \/ \E m \in Dialer : read_len(m)
    \/ \E m \in Dialer : \E msg \in Outbound(m) : broadcast_message(m, msg)
    \/ \E m \in Dialer : broadcast_lock(m)
    \/ \E m \in Dialer : \E id \in DOMAIN connections[m] : broadcast_write(m, id)
    \/ \E m \in Dialer : broadcast_return(m)
    \/ \E c \in DOMAIN stream : raw_stall(c)
    \/ \E c \in DOMAIN stream : raw_close(c)

FairSpecStall ==
    /\ InitClient
    /\ [][NextStall]_vars
    /\ \A m \in Dialer : FairRead(m) /\ FairCalls(m)
    /\ \A r \in 1..MaxConns : FairReader(r)

\* A client and the two raw servers it dials, which write nothing; the
\* application task broadcasts a text and a second task an image, neither
\* waiting for the other.
OutboundImage(mgr) == {broadcast_image(mgr, 1, 1, Pixels, now) : now \in Timestamps}
CallersOf(m) == {b \in Caller : manager_of(b) = m}

NextOverlap ==
    \/ \E m \in Dialer, t \in RawAddr, o \in DialOutcome : connect_to_device(m, t, o)
    \/ \E m \in Dialer : connect_insert(m)
    \/ \E r \in DOMAIN reader : reader_check(r)
    \/ \E r \in DOMAIN reader : reader_acquire(r)
    \/ \E r \in DOMAIN reader : reader_remove(r)
    \/ \E m \in Dialer : read_len(m)
    \/ \E m \in Dialer : \E msg \in Outbound(m) : broadcast_message(m, msg)
    \/ \E b \in CallersOf("cli") : \E msg \in OutboundImage("cli") :
            broadcast_message_overlapping(b, msg)
    \/ \E b \in CallersOf("cli") : broadcast_lock(b)
    \/ \E b \in CallersOf("cli") : \E id \in DOMAIN connections["cli"] : broadcast_write(b, id)
    \/ \E b \in CallersOf("cli") : broadcast_return(b)
    \/ \E c \in DOMAIN stream : raw_close(c)

SpecOverlap == InitClient /\ [][NextOverlap]_vars

\* ------------------------------------------- to_bytes and from_bytes
\* Messages of both kinds of content, with empty and large texts, empty and
\* non-empty pixel data, and several timestamps, sender ids and names.
Empty == [s |-> "", n |-> 0]
CodecContents ==
    {[tag |-> "Text", text |-> t] : t \in {Empty, Hello, AtMax, Huge}}
    \cup {[tag |-> "Image", width |-> w, height |-> h, data |-> d] :
            w \in {0, 1920}, h \in {0, 1080}, d \in {Empty, Pixels}}
CodecMessages ==
    {[content |-> c, timestamp |-> t, sender_id |-> i, sender_name |-> n] :
        c \in CodecContents, t \in {0, 1700000000},
        i \in {LocalDevice, Empty}, n \in {DeviceName["srv"], DeviceName["cli"]}}

InitCodec ==
    /\ InitNet /\ deployment = "client"
    /\ codec \in {[NoCodec EXCEPT !.pc = "new", !.m = x] : x \in CodecMessages}

codec_to_bytes ==
    /\ codec.pc = "new"
    /\ codec' = [codec EXCEPT !.pc = "encoded", !.data = to_bytes(codec.m)]
    /\ UNCHANGED <<deployment, connections, lock, message_sender, is_running, inbound, stream,
                   nframe, nbcast, backlog, accept_loop, reader, rd, conn_call, bcast, sd>>

codec_from_bytes ==
    /\ codec.pc = "encoded"
    /\ codec' = [codec EXCEPT !.pc = "decoded", !.back = from_bytes(codec.data)]
    /\ UNCHANGED <<deployment, connections, lock, message_sender, is_running, inbound, stream,
                   nframe, nbcast, backlog, accept_loop, reader, rd, conn_call, bcast, sd>>

NextCodec == codec_to_bytes \/ codec_from_bytes

SpecCodec == InitCodec /\ [][NextCodec]_vars

\* -------------------------------------------------------------- claims
broadcast_returns(m) == bcast[m].pc = "sweep" /\ bcast'[m].pc = "idle"

\* C1: when broadcast_message returns, every peer of the registry whose write
\* did not fail has been written the frame, every peer whose write failed is
\* absent from the registry, and the other entries are still there, bound to
\* the connections they were bound to.
C1_FailedPeerIsolated ==
    [][\A m \in Manager :
          broadcast_returns(m) =>
            /\ bcast[m].written = bcast[m].snapshot \ bcast[m].failed
            /\ DOMAIN connections'[m] = bcast[m].snapshot \ bcast[m].failed
            /\ \A id \in DOMAIN connections'[m] : connections'[m][id] = connections[m][id]]_vars

C1_Witness ==
    \E m \in Manager :
        /\ bcast[m].pc = "idle" /\ bcast[m].result = "Ok"
        /\ Cardinality(bcast[m].snapshot) = 2
        /\ Cardinality(bcast[m].failed) = 1
        /\ bcast[m].written \subseteq DOMAIN connections[m]
        /\ bcast[m].written # {}

\* C5: a connect_to_device call that returns an error leaves the registry, the
\* connections and the reader tasks as they were.
C5_FailedConnectChangesNothing ==
    [][\A m \in Manager :
          (conn_call[m].pc # "idle" \/ conn_call[m].result # "Err") /\ conn_call'[m].pc = "idle"
          /\ conn_call'[m].result = "Err"
          => connections' = connections /\ reader' = reader /\ stream' = stream]_vars

C5_Witness ==
    \E m \in Manager : conn_call[m].result = "Err" /\ DOMAIN connections[m] # {}

\* C6: no connection is registered under a PeerId that is at that moment a key
\* of the registry for another connection.
C6_PeerIdNeverReused ==
    [][\A m \in Manager : \A id \in DOMAIN connections[m] \cap DOMAIN connections'[m] :
          connections'[m][id] = connections[m][id]]_vars

\* C7: shutdown never has to wait for a peer: it is never pending behind the
\* registry lock while the lock holder waits for bytes of a silent peer.
WaitsForPeer(m) ==
    /\ Reading(m)
    /\ PeerOpen(m, reading_stream(m))
    /\ \/ Inbox(m, reading_stream(m)) = <<>>
       \/ rd[m] = "body" /\ Head(Inbox(m, reading_stream(m))).have
                               < Head(Inbox(m, reading_stream(m))).len

C7_ShutdownNeverWaits == \A m \in Manager : ~(sd[m] = "clear" /\ WaitsForPeer(m))

\* C8: every frame broadcast_message writes has a body of at most
\* MESSAGE_MAX_SIZE bytes.
C8_FrameWithinMaximum ==
    \A m \in Manager : bcast[m].written # {} => bcast[m].frame.body.n <= MESSAGE_MAX_SIZE

\* C9: the messages forwarded from one connection appear in the inbound
\* channel in the order in which the peer wrote them.
C9_PerPeerOrder ==
    \A m \in Manager : \A i, j \in DOMAIN inbound[m] :
        i < j /\ inbound[m][i].c = inbound[m][j].c => inbound[m][i].k < inbound[m][j].k

C9_Witness ==
    \E m \in Manager : \E i, j \in DOMAIN inbound[m] :
        i < j /\ inbound[m][i].c = inbound[m][j].c

\* C10: broadcast_message returns Ok whatever the number of writes that
\* failed, all of them and none for an empty registry included.
C10_BroadcastReturnsOk ==
    \A m \in Manager : bcast[m].result # "none" => bcast[m].result = "Ok"

C10_Witness ==
    \E m \in Manager :
        /\ bcast[m].result = "Ok"
        /\ bcast[m].snapshot # {} /\ bcast[m].failed = bcast[m].snapshot

\* C2: once the listener runs with its channel set up and the dialer has the
\* connection registered, a text the dialer broadcasts reaches the listener
\* side's inbound channel.
HelloFromCli == broadcast_clipboard("cli", Hello, 1700000000)

C2_BroadcastSent ==
    /\ deployment = "both"
    /\ accept_loop["srv"].pc \notin {"none", "exited"} /\ message_sender["srv"]
    /\ DOMAIN connections["cli"] # {}
    /\ bcast["cli"].pc = "lock" /\ bcast["cli"].frame = send_data(HelloFromCli)

C2_Yielded == \E i \in DOMAIN inbound["srv"] : inbound["srv"][i].message = HelloFromCli

C2_BroadcastReachesListener == C2_BroadcastSent ~> C2_Yielded

\* C3: when shutdown is invoked with two peers registered, the registry ends
\* empty and stays so, and every reader task has ended.
C3_ShutdownInvoked == sd["cli"] = "clear" /\ Cardinality(DOMAIN connections["cli"]) = 2

C3_AllClosed ==
    /\ DOMAIN connections["cli"] = {}
    /\ \A r \in DOMAIN reader : reader[r].pc = "done"

C3_ShutdownClosesPeers == C3_ShutdownInvoked ~> []C3_AllClosed

\* C4: a reader that finds a length prefix above MESSAGE_MAX_SIZE takes no
\* byte of the body and forwards nothing, and the connection it came from
\* leaves the registry; a prefix up to the maximum goes on to the body.
Registered(c) == \E m \in Manager : \E id \in DOMAIN connections[m] : connections[m][id] = c

OversizeRejected(c) ==
    \E s \in Side : /\ stream[c].wire[s] # <<>>
                     /\ ~Head(stream[c].wire[s]).pre
                     /\ Head(stream[c].wire[s]).len > MESSAGE_MAX_SIZE

C4_PrefixRead(m) ==
    /\ Reading(m) /\ rd[m] = "len"
    /\ Inbox(m, reading_stream(m)) # <<>> /\ Head(Inbox(m, reading_stream(m))).pre
    /\ stream'[reading_stream(m)].wire[EndOf(stream, reading_stream(m), m)] # <<>>
    /\ ~Head(stream'[reading_stream(m)].wire[EndOf(stream, reading_stream(m), m)]).pre

C4_OversizeRejectedUnread ==
    [][\A m \in Manager :
          C4_PrefixRead(m) =>
            LET c == reading_stream(m)
                e == EndOf(stream, c, m)
                f == Head(stream[c].wire[e])
            IN IF f.len > MESSAGE_MAX_SIZE
               THEN /\ stream'[c].wire[e] = <<[f EXCEPT !.pre = FALSE]>> \o Tail(stream[c].wire[e])
                    /\ inbound' = inbound
                    /\ rd'[m] = "idle" /\ lock'[m] = Free
               ELSE rd'[m] = "body" /\ lock'[m] = lock[m]]_vars

C4_OversizePeerRemoved ==
    \A c \in 1..MaxConns : (c \in DOMAIN stream /\ OversizeRejected(c)) ~> ~Registered(c)

\* C11: read_message leaves the body position of a frame of which fewer bytes
\* than declared have arrived only when the peer has closed, and then with
\* nothing forwarded; while the peer is open it waits.
PartialBody(m) ==
    /\ Reading(m) /\ rd[m] = "body"
    /\ Head(Inbox(m, reading_stream(m))).have < Head(Inbox(m, reading_stream(m))).len

C11_NoPartialDecode ==
    [][\A m \in Manager :
          PartialBody(m) /\ rd'[m] # "body"
          => ~PeerOpen(m, reading_stream(m)) /\ inbound' = inbound]_vars

C11_Witness ==
    \E m \in Manager : PartialBody(m) /\ PeerOpen(m, reading_stream(m))

\* C12: an insert, by connect_to_device or by the accept loop, leaves exactly
\* the keys there were and the inserted id, the id bound to the connection
\* inserted, whatever it was bound to before, and every other id as it was.
Inserts(m, id, c) ==
    \/ conn_call[m].pc = "insert" /\ conn_call'[m].pc = "idle"
       /\ id = conn_call[m].id /\ c = conn_call[m].c
    \/ accept_loop[m].pc = "insert" /\ accept_loop'[m].pc = "get"
       /\ id = accept_loop[m].id /\ c = accept_loop[m].c

C12_InsertReplaces ==
    [][\A m \in Manager : \A c \in DOMAIN stream :
          \A id \in {conn_call[m].id, accept_loop[m].id} :
             Inserts(m, id, c) =>
                /\ DOMAIN connections'[m] = DOMAIN connections[m] \cup {id}
                /\ connections'[m][id] = c
                /\ \A x \in DOMAIN connections[m] \ {id} :
                      connections'[m][x] = connections[m][x]]_vars

C12_Witness ==
    \E m \in Manager : \E id \in DOMAIN connections[m] :
        /\ Len(stream) = 2 /\ connections[m][id] = 2
        /\ stream[1].dialer = m /\ stream[2].dialer = m
        /\ stream[1].target = stream[2].target
        /\ reader[1].pc \notin {"none", "done"}

\* C13: every change of a registry is one operation of one task, applied
\* whole to the registry as it is at that moment: an insert by the dialer or
\* the accept loop, a remove by a reader task or the accept loop, the removes
\* of a broadcast, or the clear of shutdown.  No task changes the registry
\* while another holds the mutex, and the registry a broadcast removes from is
\* the one it swept.
RegistryOps(m) ==
    {insert(connections[m], conn_call[m].id, conn_call[m].c) : x \in {1} \cap
        (IF conn_call[m].pc = "insert" THEN {1} ELSE {})}
    \cup {insert(connections[m], accept_loop[m].id, accept_loop[m].c) : x \in {1} \cap
        (IF accept_loop[m].pc = "insert" THEN {1} ELSE {})}
    \cup {remove(connections[m], {accept_loop[m].id}) : x \in {1} \cap
        (IF accept_loop[m].pc = "remove" THEN {1} ELSE {})}
    \cup {remove(connections[m], {reader[r].id}) :
            r \in {x \in DOMAIN reader : reader[x].mgr = m /\ reader[x].pc = "remove"}}
    \cup {remove(connections[m], bcast[m].failed) : x \in {1} \cap
        (IF bcast[m].pc = "sweep" /\ bcast[m].todo = {} THEN {1} ELSE {})}
    \cup {EmptyMap : x \in {1} \cap (IF sd[m] = "clear" THEN {1} ELSE {})}

C13_RegistryLinearizable ==
    [][\A m \in Manager :
          /\ connections'[m] # connections[m] =>
                /\ lock[m] = Free \/ (lock[m].t = "broadcast" /\ broadcast_returns(m))
                /\ connections'[m] \in RegistryOps(m)
          /\ broadcast_returns(m) => DOMAIN connections[m] = bcast[m].snapshot]_vars

C13_Witness ==
    \E m \in Manager : \E r \in DOMAIN reader :
        /\ bcast[m].pc = "sweep" /\ bcast[m].failed # {}
        /\ reader[r].mgr = m /\ reader[r].pc = "remove"

WriteSuspended(m) ==
    /\ lock[m].t = "broadcast" /\ bcast[m].pc = "sweep"
    /\ bcast[m].order # <<>> /\ Head(bcast[m].order) \in bcast[m].todo
    /\ write_results(stream, m, connections[m][Head(bcast[m].order)]) = {}

C15_NoIoUnderLock ==
    \A m \in Manager : lock[m] # Free => ~WaitsForPeer(m) /\ ~WriteSuspended(m)

\* C16: a broadcast_message call made while a peer is registered writes the
\* frame and returns, whether the peer sends anything or not, as long as the
\* peers read what they are sent.
C16_Called(m) == bcast[m].pc = "lock" /\ DOMAIN connections[m] # {}
C16_PeerNotReading == \E c \in DOMAIN stream : \E e \in Side : stream[c].stalled[e]

C16_BroadcastReturns ==
    \A m \in Dialer : C16_Called(m) ~> (bcast[m].pc = "idle" \/ C16_PeerNotReading)

\* C17: while the listener runs and an accepted peer stays connected, a second
\* inbound connection is accepted and registered beside the first.
C17_SecondArrived ==
    /\ is_running["srv"] /\ accept_loop["srv"].pc = "handle"
    /\ backlog["srv"] # <<>>

C17_BothRegistered ==
    \/ Cardinality(DOMAIN connections["srv"]) = 2
    \/ \E c \in DOMAIN stream : ~stream[c].open["d"]

C17_ServesConcurrently == C17_SecondArrived ~> C17_BothRegistered

\* C18: a reader task that is reading reads the stream it was spawned for, or
\* one whose own reader task is not alive: no two tasks read one stream.
C18_OneReaderPerStream ==
    \A r \in DOMAIN reader :
        reader[r].pc = "read" =>
            LET c == connections[reader[r].mgr][reader[r].id]
            IN c = r \/ reader[c].pc \in {"none", "done"}

\* C20: the removal a reader task makes when its read failed leaves every
\* entry bound to a healthy connection (both ends open, nothing ever written
\* on it) in the registry, bound as it was.
Healthy(c) ==
    /\ stream[c].open["d"] /\ stream[c].open["a"]
    /\ stream[c].sent["d"] = 0 /\ stream[c].sent["a"] = 0

C20_FaultContained ==
    [][\A r \in DOMAIN reader :
          reader[r].pc = "remove" /\ reader'[r].pc = "done" =>
            \A id \in DOMAIN connections[reader[r].mgr] :
                Healthy(connections[reader[r].mgr][id]) =>
                    /\ id \in DOMAIN connections'[reader[r].mgr]
                    /\ connections'[reader[r].mgr][id] = connections[reader[r].mgr][id]]_vars

\* C19: in the step in which a reader task exits, and in the step in which
\* the accept loop is done with a connection, the id is not a key of the
\* registry; the connection of an exited reader task is not registered; an
\* exited task takes no further step, so it removes at most once.
C19_ExitLeavesNoEntry ==
    [][/\ \A r \in DOMAIN reader :
            /\ reader[r].pc # "done" /\ reader'[r].pc = "done"
               => reader[r].id \notin DOMAIN connections'[reader[r].mgr]
            /\ reader'[r].pc = "done"
               => \A id \in DOMAIN connections'[reader'[r].mgr] :
                     connections'[reader'[r].mgr][id] # r
            /\ reader[r].pc = "done" => reader'[r] = reader[r]
       /\ \A m \in Listener :
            accept_loop[m].pc = "remove" /\ accept_loop'[m].pc # "remove"
            => accept_loop[m].id \notin DOMAIN connections'[m]]_vars

C19_Witness ==
    \E r \in DOMAIN reader :
        /\ reader[r].pc = "done"
        /\ \A id \in DOMAIN connections[reader[r].mgr] : connections[reader[r].mgr][id] # r
        /\ sd[reader[r].mgr] = "idle" /\ bcast[reader[r].mgr].failed = {}

\* C21: every frame read_message decodes is forwarded: the step that decodes a
\* body appends the message to the inbound channel of its manager, whether
\* setup_message_handler was called before the connection was made or after.
Decodes(m) ==
    /\ Reading(m) /\ rd[m] = "body" /\ rd'[m] # "body"
    /\ read_exact(Head(Inbox(m, reading_stream(m))))
    /\ from_bytes(Head(Inbox(m, reading_stream(m))).body).ok

C21_DecodedIsForwarded ==
    [][\A m \in Manager :
          Decodes(m) =>
            /\ Len(inbound'[m]) = Len(inbound[m]) + 1
            /\ inbound'[m][Len(inbound'[m])].message
                   = from_bytes(Head(Inbox(m, reading_stream(m))).body).message]_vars

\* C22: once shutdown has returned with no connection pending and none in the
\* hands of the accept loop, the accept loop accepts no connection any more:
\* whatever it would accept from then on has arrived after shutdown returned.
C22_ShutdownReturned(m) ==
    /\ sd[m] = "returned"
    /\ backlog[m] = <<>>
    /\ accept_loop[m].c = 0

C22_NoAcceptAfterShutdown ==
    \A m \in Listener : [](C22_ShutdownReturned(m) => [](accept_loop[m].pc # "insert"))

\* C24: while a reader task holds the error of a body that did not parse, on
\* its way to removing the peer, no task has read the prefix of a later frame
\* of the connection the body came from.
C24_NoReadAfterMalformed ==
    \A r \in DOMAIN reader :
        reader[r].read_result.err = "parse failed" =>
            ~(/\ Reading(reader[r].mgr) /\ rd[reader[r].mgr] = "body"
              /\ reading_stream(reader[r].mgr) = reader[r].read_result.c)

\* C23: when a write of a broadcast is pending, the other end open and not
\* reading, the sweep still gets to each peer that waits behind it: the write
\* to that peer is made and returns.
C23_BehindPending(m, id) ==
    /\ bcast[m].pc = "sweep" /\ bcast[m].order # <<>>
    /\ id \in bcast[m].todo /\ id # Head(bcast[m].order)
    /\ write_results(stream, m, connections[m][Head(bcast[m].order)]) = {}
    /\ write_results(stream, m, connections[m][id]) = {"Ok"}

C23_StallDoesNotBlock ==
    \A t \in RawAddr :
        C23_BehindPending("cli", server_device_id(t))
            ~> server_device_id(t) \notin bcast["cli"].todo

\* C25: of the broadcast_message calls on one registry at most one is in its
\* sweep at a time and it holds the connections mutex; every frame that
\* reaches a peer is written by that one call, so no write of one call falls
\* between two writes, or inside a write, of another; and while the
\* application task has made one call, so that a text and an image name the
\* two calls, two peers that have received both have received them in the
\* same order.
Received(c) == stream[c].wire[RawEnd(c)]
FramesOf(c, tag) ==
    {i \in DOMAIN Received(c) : DOMAIN Received(c)[i].body.json.content = {tag}}
HasBoth(c) == FramesOf(c, "Text") # {} /\ FramesOf(c, "Image") # {}
TextFirst(c) == \E i \in FramesOf(c, "Text") : \A j \in FramesOf(c, "Image") : i < j
OnlySweeping(b) ==
    /\ bcast[b].pc = "sweep"
    /\ \A b2 \in CallersOf(manager_of(b)) \ {b} : bcast[b2].pc # "sweep"
WrittenByOneSweep ==
    \A c \in DOMAIN stream :
        Len(Received(c)') > Len(Received(c)) =>
            \E b \in Caller :
                /\ OnlySweeping(b)
                /\ Len(Received(c)') = Len(Received(c)) + 1
                /\ SubSeq(Received(c)', 1, Len(Received(c))) = Received(c)
                /\ Received(c)'[Len(Received(c)')].len = bcast[b].frame.len
                /\ Received(c)'[Len(Received(c)')].body = bcast[b].frame.body

C25_BroadcastsSerialized ==
    /\ [](\A m \in Manager : Cardinality({b \in CallersOf(m) : bcast[b].pc = "sweep"}) <= 1)
    /\ [](\A b \in Caller : bcast[b].pc = "sweep" => lock[manager_of(b)].t = "broadcast")
    /\ [][WrittenByOneSweep]_vars
    /\ [](nbcast <= 1 =>
            \A c1, c2 \in DOMAIN stream :
                HasBoth(c1) /\ HasBoth(c2) => (TextFirst(c1) <=> TextFirst(c2)))

C25_Witness ==
    /\ bcast["cli"].pc = "idle" /\ bcast["cli"].result = "Ok"
    /\ bcast["cli2"].pc = "idle" /\ bcast["cli2"].result = "Ok"
    /\ \E c1, c2 \in DOMAIN stream : c1 # c2 /\ HasBoth(c1) /\ HasBoth(c2)

====
